---------------------------- MODULE Spec2Model ----------------------------
(***************************************************************************)
(* Model of the Rosetta construction client (crates/aptos-rosetta/src/     *)
(* client.rs) and of the part of the error taxonomy it is classified by    *)
(* (crates/aptos-rosetta/src/error.rs).                                    *)
(*                                                                         *)
(* One submission (RosettaClient::submit_operations) is a chain of awaited *)
(* remote calls.  Each action below is the code that runs between two      *)
(* await points: it receives the response of the call in flight, runs the  *)
(* local checks that follow it, and either issues the next call or ends    *)
(* the submission.  The remote node is the environment: every response is  *)
(* chosen nondeterministically from a bounded set.                         *)
(***************************************************************************)
EXTENDS Integers, Sequences, FiniteSets, TLC

VARIABLES
    network_identifier,   \* argument of submit_operations
    keys,                 \* argument: HashMap<AccountAddress, &Ed25519PrivateKey>
    operations,           \* argument: Vec<Operation>
    expiry_time_secs,     \* argument
    sequence_number,      \* argument: Option<u64>
    pc,                   \* the call the submission is awaiting, or "start"/"done"
    calls,                \* requests issued so far, in order
    returned,             \* number of responses received so far
    last_response,        \* the response received last (what make_call returned)
    public_keys,          \* metadata_for_ops: resolved public keys
    metadata,             \* ConstructionMetadataResponse.metadata
    unsigned_response,    \* ConstructionPayloadsResponse kept by submit_operations
    signatures,           \* every signature sign_transaction has produced
    signers,              \* every signer sign_transaction has recorded
    signed_txn,           \* ConstructionCombineResponse.signed_transaction
    result,               \* outcome of the submission
    entry,                \* the public operation that runs the submission, with its arguments
    source,               \* error taxonomy: the foreign error being converted
    api_error,            \* error taxonomy: the ApiError value at hand
    projection,           \* error taxonomy: what the projections gave for api_error
    client,               \* the RosettaClient the submissions borrow (&self)
    parked                \* a second submission on the same client, suspended at an await

vars == <<network_identifier, keys, operations, expiry_time_secs, sequence_number,
          pc, calls, returned, last_response, public_keys, metadata, unsigned_response,
          signatures, signers, signed_txn, result, entry, source, api_error, projection,
          client, parked>>

inputs == <<network_identifier, keys, operations, expiry_time_secs, sequence_number>>

\* what no step of submit_operations touches
outside == <<entry, source, api_error, projection, parked>>

---------------------------------------------------------------------------
(* Option<T> *)
None == [some |-> FALSE]
Some(x) == [some |-> TRUE, val |-> x]

(* Bounds of the model *)
MaxRequired == 2     \* longest required_public_keys list of a preprocess response
MaxPayloads == 2     \* longest signing-payload list of a payloads response
MaxSigners == 2      \* longest account_identifier_signers list of a parse response

SeqsUpTo(S, n) == UNION {[1..k -> S] : k \in 0..n}

---------------------------------------------------------------------------
(* Values *)
Networks == {"testnet"}
Addresses == {"0xa", "0xb"}
\* account identifiers a response may carry; "0xzz" is not a well-formed address
AccountIds == Addresses \cup {"0xzz"}
PrivateKeys == {"k1", "k2"}
KeyMaps ==
    { <<>>,
      [a \in {"0xa"} |-> "k1"],
      [a \in Addresses |-> IF a = "0xa" THEN "k1" ELSE "k2"] }
\* RosettaClient::new(address): the node's address and the HTTP client
RosettaClient == [address |-> "http://node:8082", inner |-> "reqwest::Client"]

ExpiryTimes == {30}
SequenceNumbers == {None}

\* AccountIdentifier::account_address(): fallible parse of the identifier's address
account_address(account) ==
    IF account \in Addresses THEN Some(account) ELSE None

\* PrivateKey::public_key() followed by try_into() to the Rosetta PublicKey
public_key(private_key) == [hex_bytes |-> <<"pub", private_key>>, curve_type |-> "edwards25519"]

NativeCoin == [symbol |-> "APT", decimals |-> 8]

\* val_to_amount: the value is a decimal string, "-" prefixed for a withdraw
val_to_amount(amount, withdraw) ==
    [value |-> [minus |-> withdraw, digits |-> amount], currency |-> NativeCoin]

MaxFee == 10000
FeeMultiplier == 1

Operation(index, type, account, amount) ==
    [operation_index |-> index, type |-> type, account |-> account, amount |-> amount,
     metadata |-> None]

\* Operation::withdraw(index, status, account, currency, amount): the amount is negative
Operation_withdraw(index, account, currency, amount) ==
    Operation(index, "withdraw", account,
              Some([value |-> [minus |-> TRUE, digits |-> amount], currency |-> currency]))

\* Operation::deposit(index, status, account, currency, amount): the amount is positive
Operation_deposit(index, account, currency, amount) ==
    Operation(index, "deposit", account,
              Some([value |-> [minus |-> FALSE, digits |-> amount], currency |-> currency]))

\* Operation::create_account(index, status, account, sender): no amount, the
\* funding sender is carried in the operation's metadata
Operation_create_account(index, account, sender) ==
    [Operation(index, "create_account", account, None)
        EXCEPT !.metadata = Some([sender |-> sender])]

OperationLists ==
    { <<Operation(0, "withdraw", "0xa", Some(val_to_amount(1, TRUE))),
        Operation(1, "deposit", "0xb", Some(val_to_amount(1, FALSE)))>>,
      <<Operation(1, "deposit", "0xb", Some(val_to_amount(1, FALSE))),
        Operation(0, "withdraw", "0xa", Some(val_to_amount(1, TRUE)))>>,
      <<Operation_create_account(0, "0xb", "0xa")>> }

---------------------------------------------------------------------------
(* anyhow::Error values and outcomes *)
anyhow(msg) == [msg |-> msg, ctx |-> None]
anyhow_ctx(msg, ctx) == [msg |-> msg, ctx |-> Some(ctx)]

NoResult == [kind |-> "none"]
Ok(txn) == [kind |-> "ok", transaction_identifier |-> txn]
Err(e) == [kind |-> "err", error |-> e]
Panic(msg) == [kind |-> "panic", msg |-> msg]

(* what make_call returned *)
NoResponse == [kind |-> "none"]
Response(body) == [kind |-> "ok", body |-> body]
Failed(e) == [kind |-> "failed", error |-> e]

(* make_call: what the transport can hand back instead of a typed response *)
RemoteErrors ==
    { [code |-> 501, retriable |-> TRUE],
      [code |-> 403, retriable |-> FALSE] }

\* a failed send or an undecodable body (lines 138-142, 145, 149), or a
\* non-2xx response with an Error object (line 146)
CallFailures ==
    {anyhow("request failed")}
    \cup {anyhow_ctx("Failed API with: ", e) : e \in RemoteErrors}

---------------------------------------------------------------------------
(* Requests *)
PreprocessRequest ==
    [endpoint |-> "construction/preprocess",
     network_identifier |-> network_identifier,
     operations |-> operations,
     max_fee |-> Some(<<val_to_amount(MaxFee, FALSE)>>),
     suggested_fee_multiplier |-> Some(FeeMultiplier),
     metadata |-> Some([expiry_time_secs |-> Some(expiry_time_secs),
                        sequence_number |-> sequence_number])]

MetadataRequest(options, pks) ==
    [endpoint |-> "construction/metadata",
     network_identifier |-> network_identifier,
     options |-> options,
     public_keys |-> pks]

\* variant of PayloadsRequest that sends the public keys in the opposite order
PayloadsRequest_reordered(md, pks) ==
    [endpoint |-> "construction/payloads",
     network_identifier |-> network_identifier,
     operations |-> operations,
     metadata |-> Some(md),
     public_keys |-> Some([i \in 1..Len(pks) |-> pks[Len(pks) + 1 - i]])]

PayloadsRequest(md, pks) ==
    [endpoint |-> "construction/payloads",
     network_identifier |-> network_identifier,
     operations |-> operations,
     metadata |-> Some(md),
     public_keys |-> Some(pks)]

ParseRequest(signed, transaction) ==
    [endpoint |-> "construction/parse",
     network_identifier |-> network_identifier,
     signed |-> signed,
     transaction |-> transaction]

CombineRequest(unsigned_transaction, sigs) ==
    [endpoint |-> "construction/combine",
     network_identifier |-> network_identifier,
     unsigned_transaction |-> unsigned_transaction,
     signatures |-> sigs]

SubmitRequest(signed_transaction) ==
    [endpoint |-> "construction/submit",
     network_identifier |-> network_identifier,
     signed_transaction |-> signed_transaction]

---------------------------------------------------------------------------
(* Responses the node may give *)
MetadataOptions == {"options"}
MetadataValues == {"md1"}
\* transactions the node may have built, and the hex blobs a payloads response
\* may carry: one that decodes to a RawTransaction and one that does not
RawTransactions == {"raw1", "raw2"}
UnsignedBlobs == {"raw1", "nothex"}
SignedBlobs == {"signed1", "signed2"}
TransactionIds == {"hash1", "hash2"}

\* hex::decode followed by bcs::from_bytes
decode_unsigned(blob) ==
    IF blob \in RawTransactions THEN Some([raw_transaction |-> blob]) ELSE None

\* hex::encode(RawTransaction::signing_message())
signing_message_hex(unsigned_transaction) ==
    <<"signing_message", unsigned_transaction.raw_transaction>>

\* the message bytes a signing payload may carry
SigningMessages == {signing_message_hex([raw_transaction |-> t]) : t \in RawTransactions}

SigningPayloads ==
    [account_identifier : {None} \cup {Some(a) : a \in AccountIds},
     hex_bytes : SigningMessages]

PreprocessResponses ==
    [required_public_keys : {None} \cup {Some(l) : l \in SeqsUpTo(AccountIds, MaxRequired)},
     options : {None} \cup {Some(o) : o \in MetadataOptions}]

MetadataResponses == [metadata : MetadataValues]

PayloadsResponses ==
    [unsigned_transaction : UnsignedBlobs,
     payloads : SeqsUpTo(SigningPayloads, MaxPayloads)]

ParseResponses ==
    [operations : OperationLists,
     account_identifier_signers :
        {None} \cup {Some(l) : l \in SeqsUpTo(Addresses, MaxSigners)}]

CombineResponses == [signed_transaction : SignedBlobs]

SubmitResponses == [transaction_identifier : TransactionIds]

---------------------------------------------------------------------------
\* variant of resolve_public_keys that passes over an account with no key
RECURSIVE resolve_public_keys_skipping(_, _, _)
resolve_public_keys_skipping(accounts, kmap, acc) ==
    IF accounts = <<>> THEN [ok |-> TRUE, public_keys |-> acc]
    ELSE LET address == account_address(Head(accounts)) IN
         IF ~address.some
         THEN [ok |-> FALSE, error |-> anyhow("account address does not parse")]
         ELSE IF address.val \in DOMAIN kmap
         THEN resolve_public_keys_skipping(Tail(accounts), kmap,
                                  Append(acc, public_key(kmap[address.val])))
         ELSE resolve_public_keys_skipping(Tail(accounts), kmap, acc)

(* metadata_for_ops, lines 307-319: resolve each required account to a key *)
RECURSIVE resolve_public_keys(_, _, _)
resolve_public_keys(accounts, kmap, acc) ==
    IF accounts = <<>> THEN [ok |-> TRUE, public_keys |-> acc]
    ELSE LET address == account_address(Head(accounts)) IN
         IF ~address.some
         THEN [ok |-> FALSE, error |-> anyhow("account address does not parse")]
         ELSE IF address.val \in DOMAIN kmap
         THEN resolve_public_keys(Tail(accounts), kmap,
                                  Append(acc, public_key(kmap[address.val])))
         ELSE [ok |-> FALSE, error |-> anyhow("No public key found for account")]

\* the outcome of the code between the preprocess response and the metadata call
process_required_public_keys(preprocess_response, kmap) ==
    IF preprocess_response.required_public_keys.some
    THEN resolve_public_keys(preprocess_response.required_public_keys.val, kmap, <<>>)
    ELSE [ok |-> FALSE, error |-> anyhow("No public keys found required for transaction")]

(* sign_transaction, lines 395-413: sign every payload that matches *)
sign(private_key, unsigned_transaction) ==
    [signed_by |-> private_key, message |-> unsigned_transaction]

\* variant of Signature that signs the message bytes the payload carries
Signature_of_payload_bytes(payload, private_key, unsigned_transaction) ==
    [signing_payload |-> payload,
     public_key |-> public_key(private_key),
     signature_type |-> "ed25519",
     hex_bytes |-> sign(private_key, payload.hex_bytes)]

Signature(payload, private_key, unsigned_transaction) ==
    [signing_payload |-> payload,
     public_key |-> public_key(private_key),
     signature_type |-> "ed25519",
     hex_bytes |-> sign(private_key, unsigned_transaction)]

had_key(kmap, address) == address \in DOMAIN kmap

\* variant of sign_payloads that compares the message after signing
RECURSIVE sign_payloads_then_compare(_, _, _, _, _)
sign_payloads_then_compare(payloads, kmap, unsigned_transaction, sigs, sgnrs) ==
    IF payloads = <<>>
    THEN [kind |-> "ok", signatures |-> sigs, signers |-> sgnrs]
    ELSE LET payload == Head(payloads) IN
         IF ~payload.account_identifier.some
         THEN [kind |-> "panic", msg |-> "Must have an account",
               signatures |-> sigs, signers |-> sgnrs]
         ELSE LET account == payload.account_identifier.val
                  address == account_address(account) IN
         IF ~address.some
         THEN [kind |-> "err", error |-> anyhow("account address does not parse"),
               signatures |-> sigs, signers |-> sgnrs]
         ELSE IF ~had_key(kmap, address.val)
         THEN [kind |-> "panic", msg |-> "Should have a private key",
               signatures |-> sigs, signers |-> sgnrs]
         ELSE LET signed == Append(sigs, Signature(payload, kmap[address.val],
                                                   unsigned_transaction)) IN
         IF signing_message_hex(unsigned_transaction) # payload.hex_bytes
         THEN [kind |-> "panic", msg |-> "assertion failed: signing_message == payload.hex_bytes",
               signatures |-> signed, signers |-> Append(sgnrs, account)]
         ELSE sign_payloads_then_compare(Tail(payloads), kmap, unsigned_transaction,
                  signed, Append(sgnrs, account))

RECURSIVE sign_payloads(_, _, _, _, _)
sign_payloads(payloads, kmap, unsigned_transaction, sigs, sgnrs) ==
    IF payloads = <<>>
    THEN [kind |-> "ok", signatures |-> sigs, signers |-> sgnrs]
    ELSE LET payload == Head(payloads) IN
         IF ~payload.account_identifier.some
         THEN [kind |-> "panic", msg |-> "Must have an account",
               signatures |-> sigs, signers |-> sgnrs]
         ELSE LET account == payload.account_identifier.val
                  address == account_address(account) IN
         IF ~address.some
         THEN [kind |-> "err", error |-> anyhow("account address does not parse"),
               signatures |-> sigs, signers |-> sgnrs]
         ELSE IF ~had_key(kmap, address.val)
         THEN [kind |-> "panic", msg |-> "Should have a private key",
               signatures |-> sigs, signers |-> sgnrs]
         ELSE IF signing_message_hex(unsigned_transaction) # payload.hex_bytes
         THEN [kind |-> "panic", msg |-> "assertion failed: signing_message == payload.hex_bytes",
               signatures |-> sigs, signers |-> Append(sgnrs, account)]
         ELSE sign_payloads(Tail(payloads), kmap, unsigned_transaction,
                  Append(sigs, Signature(payload, kmap[address.val], unsigned_transaction)),
                  Append(sgnrs, account))

---------------------------------------------------------------------------
Init ==
    /\ network_identifier \in Networks
    /\ keys \in KeyMaps
    /\ operations \in OperationLists
    /\ expiry_time_secs \in ExpiryTimes
    /\ sequence_number \in SequenceNumbers
    /\ pc = "start"
    /\ calls = <<>>
    /\ returned = 0
    /\ last_response = NoResponse
    /\ public_keys = <<>>
    /\ metadata = None
    /\ unsigned_response = None
    /\ signatures = <<>>
    /\ signers = <<>>
    /\ signed_txn = None
    /\ result = NoResult
    /\ entry = None
    /\ source = None
    /\ api_error = None
    /\ projection = None
    /\ client = RosettaClient
    /\ parked = None

\* variant of Issue in which the client keeps the request it sent last
Issue_remembering(request, awaiting) ==
    /\ calls' = Append(calls, request)
    /\ pc' = awaiting
    /\ result' = result
    /\ client' = [client EXCEPT !.inner = request.endpoint]

\* issue a remote call and suspend until it returns
Issue(request, awaiting) ==
    /\ calls' = Append(calls, request)
    /\ pc' = awaiting
    /\ result' = result
    /\ client' = client

\* end the submission: the outcome goes to the caller, the values the
\* submission owned are dropped
Finish(outcome) ==
    /\ calls' = calls
    /\ pc' = "done"
    /\ result' = outcome
    /\ client' = client
    /\ public_keys' = <<>>
    /\ metadata' = None
    /\ unsigned_response' = None
    /\ signed_txn' = None

\* make_call fails: every caller propagates the error with `?`
CallFails ==
    \E e \in CallFailures :
        /\ last_response' = Failed(e)
        /\ Finish(Err(e))

(* submit_operations -> metadata_for_ops, lines 293-305 *)
CallPreprocess ==
    /\ pc = "start"
    /\ Issue(PreprocessRequest, "preprocess")
    /\ UNCHANGED <<inputs, outside, returned, last_response, public_keys, metadata,
                   unsigned_response, signatures, signers, signed_txn>>

(* metadata_for_ops, lines 305-334 *)
metadata_for_ops_continue(preprocess_response) ==
    LET resolved == process_required_public_keys(preprocess_response, keys) IN
    IF ~resolved.ok
    THEN Finish(Err(resolved.error))
    ELSE IF preprocess_response.options.some
    THEN /\ Issue(MetadataRequest(preprocess_response.options.val, resolved.public_keys),
                  "metadata")
         /\ public_keys' = resolved.public_keys
         /\ UNCHANGED <<metadata, unsigned_response, signed_txn>>
    ELSE Finish(Err(anyhow("No metadata options returned from preprocess response")))

\* variant of PreprocessReturns that calls preprocess again when the call fails
PreprocessReturns_retrying ==
    /\ pc = "preprocess"
    /\ returned' = returned + 1
    /\ \/ \E e \in CallFailures :
            /\ last_response' = Failed(e)
            /\ Issue(PreprocessRequest, "preprocess")
            /\ UNCHANGED <<public_keys, metadata, unsigned_response, signed_txn>>
       \/ \E response \in PreprocessResponses :
            /\ last_response' = Response(response)
            /\ metadata_for_ops_continue(response)
    /\ UNCHANGED <<inputs, outside, signatures, signers>>

PreprocessReturns ==
    /\ pc = "preprocess"
    /\ returned' = returned + 1
    /\ \/ CallFails
       \/ \E response \in PreprocessResponses :
            /\ last_response' = Response(response)
            /\ metadata_for_ops_continue(response)
    /\ UNCHANGED <<inputs, outside, signatures, signers>>

(* metadata_for_ops line 329, submit_operations 242-252, unsigned_transaction 346-353 *)
MetadataReturns ==
    /\ pc = "metadata"
    /\ returned' = returned + 1
    /\ \/ CallFails
       \/ \E response \in MetadataResponses :
            /\ last_response' = Response(response)
            /\ metadata' = Some(response.metadata)
            /\ Issue(PayloadsRequest(response.metadata, public_keys), "payloads")
            /\ UNCHANGED <<public_keys, unsigned_response, signed_txn>>
    /\ UNCHANGED <<inputs, outside, signatures, signers>>

(* unsigned_transaction, lines 353-362 *)
PayloadsReturns ==
    /\ pc = "payloads"
    /\ returned' = returned + 1
    /\ \/ CallFails
       \/ \E response \in PayloadsResponses :
            /\ last_response' = Response(response)
            /\ unsigned_response' = Some(response)
            /\ Issue(ParseRequest(FALSE, response.unsigned_transaction), "parse_unsigned")
            /\ UNCHANGED <<public_keys, metadata, signed_txn>>
    /\ UNCHANGED <<inputs, outside, signatures, signers>>

\* variant of unsigned_check with the presence test on the signers inverted
unsigned_check_inverted(ops, response) ==
    IF ~response.account_identifier_signers.some
    THEN [ok |-> FALSE, error |-> anyhow("Signers were in the unsigned transaction!")]
    ELSE IF ops # response.operations
    THEN [ok |-> FALSE,
          error |-> anyhow("Operations were not parsed to be the same as input!")]
    ELSE [ok |-> TRUE]

\* variant of unsigned_check that compares only the number of operations
unsigned_check_lengths(ops, response) ==
    IF response.account_identifier_signers.some
    THEN [ok |-> FALSE, error |-> anyhow("Signers were in the unsigned transaction!")]
    ELSE IF Len(ops) # Len(response.operations)
    THEN [ok |-> FALSE,
          error |-> anyhow("Operations were not parsed to be the same as input!")]
    ELSE [ok |-> TRUE]

(* unsigned_transaction, lines 364-374: the checks on the unsigned parse *)
unsigned_check(ops, response) ==
    IF response.account_identifier_signers.some
    THEN [ok |-> FALSE, error |-> anyhow("Signers were in the unsigned transaction!")]
    ELSE IF ops # response.operations
    THEN [ok |-> FALSE,
          error |-> anyhow("Operations were not parsed to be the same as input!")]
    ELSE [ok |-> TRUE]

(* sign_transaction, lines 385-422: decode, sign every payload, call combine *)
sign_transaction_start ==
    LET decoded == decode_unsigned(unsigned_response.val.unsigned_transaction) IN
    IF ~decoded.some
    THEN /\ Finish(Err(anyhow("unsigned transaction does not decode")))
         /\ UNCHANGED <<signatures, signers>>
    ELSE LET signed == sign_payloads(unsigned_response.val.payloads, keys,
                                     decoded.val, <<>>, <<>>) IN
         /\ signatures' = signed.signatures
         /\ signers' = signed.signers
         /\ IF signed.kind = "ok"
            THEN /\ Issue(CombineRequest(unsigned_response.val.unsigned_transaction,
                                         signed.signatures), "combine")
                 /\ UNCHANGED <<public_keys, metadata, unsigned_response, signed_txn>>
            ELSE IF signed.kind = "err"
            THEN Finish(Err(signed.error))
            ELSE Finish(Panic(signed.msg))

ParseUnsignedReturns ==
    /\ pc = "parse_unsigned"
    /\ returned' = returned + 1
    /\ \/ CallFails /\ UNCHANGED <<signatures, signers>>
       \/ \E response \in ParseResponses :
            /\ last_response' = Response(response)
            /\ LET checked == unsigned_check(operations, response) IN
               IF checked.ok
               THEN sign_transaction_start
               ELSE Finish(Err(checked.error)) /\ UNCHANGED <<signatures, signers>>
    /\ UNCHANGED <<inputs, outside>>

\* variant of CombineReturns that submits the combined transaction unverified
CombineReturns_unverified ==
    /\ pc = "combine"
    /\ returned' = returned + 1
    /\ \/ CallFails
       \/ \E response \in CombineResponses :
            /\ last_response' = Response(response)
            /\ signed_txn' = Some(response.signed_transaction)
            /\ Issue(SubmitRequest(response.signed_transaction), "submit")
            /\ UNCHANGED <<public_keys, metadata, unsigned_response>>
    /\ UNCHANGED <<inputs, outside, signatures, signers>>

(* sign_transaction, lines 422-431 *)
CombineReturns ==
    /\ pc = "combine"
    /\ returned' = returned + 1
    /\ \/ CallFails
       \/ \E response \in CombineResponses :
            /\ last_response' = Response(response)
            /\ signed_txn' = Some(response.signed_transaction)
            /\ Issue(ParseRequest(TRUE, response.signed_transaction), "parse_signed")
            /\ UNCHANGED <<public_keys, metadata, unsigned_response>>
    /\ UNCHANGED <<inputs, outside, signatures, signers>>

Range(seq) == {seq[i] : i \in 1..Len(seq)}

\* variant of signed_check that compares the signers as sets
signed_check_unordered(ops, sgnrs, response) ==
    IF ~response.account_identifier_signers.some
    THEN [ok |-> FALSE, error |-> anyhow("Signers were in the unsigned transaction!")]
    ELSE IF Range(sgnrs) # Range(response.account_identifier_signers.val)
    THEN [ok |-> FALSE, error |-> anyhow("Signers don't match")]
    ELSE IF ops # response.operations
    THEN [ok |-> FALSE,
          error |-> anyhow("Operations were not parsed to be the same as input!")]
    ELSE [ok |-> TRUE]

(* sign_transaction, lines 433-455: the checks on the signed parse *)
signed_check(ops, sgnrs, response) ==
    IF ~response.account_identifier_signers.some
    THEN [ok |-> FALSE, error |-> anyhow("Signers were in the unsigned transaction!")]
    ELSE IF sgnrs # response.account_identifier_signers.val
    THEN [ok |-> FALSE, error |-> anyhow("Signers don't match")]
    ELSE IF ops # response.operations
    THEN [ok |-> FALSE,
          error |-> anyhow("Operations were not parsed to be the same as input!")]
    ELSE [ok |-> TRUE]

(* sign_transaction 431-455, submit_operations 255-257, submit_transaction 464-468 *)
ParseSignedReturns ==
    /\ pc = "parse_signed"
    /\ returned' = returned + 1
    /\ \/ CallFails
       \/ \E response \in ParseResponses :
            /\ last_response' = Response(response)
            /\ LET checked == signed_check(operations, signers, response) IN
               IF checked.ok
               THEN /\ Issue(SubmitRequest(signed_txn.val), "submit")
                    /\ UNCHANGED <<public_keys, metadata, unsigned_response, signed_txn>>
               ELSE Finish(Err(checked.error))
    /\ UNCHANGED <<inputs, outside, signatures, signers>>

\* variant of SubmitReturns that submits once more when the call fails
SubmitReturns_retrying ==
    /\ pc = "submit"
    /\ returned' = returned + 1
    /\ \/ \E e \in CallFailures :
            /\ last_response' = Failed(e)
            /\ IF Len(calls) < 9
               THEN /\ Issue(SubmitRequest(signed_txn.val), "submit")
                    /\ UNCHANGED <<public_keys, metadata, unsigned_response, signed_txn>>
               ELSE Finish(Err(e))
       \/ \E response \in SubmitResponses :
            /\ last_response' = Response(response)
            /\ Finish(Ok(response.transaction_identifier))
    /\ UNCHANGED <<inputs, outside, signatures, signers>>

(* submit_transaction, lines 469-470 *)
SubmitReturns ==
    /\ pc = "submit"
    /\ returned' = returned + 1
    /\ \/ CallFails
       \/ \E response \in SubmitResponses :
            /\ last_response' = Response(response)
            /\ Finish(Ok(response.transaction_identifier))
    /\ UNCHANGED <<inputs, outside, signatures, signers>>

Next ==
    \/ CallPreprocess
    \/ PreprocessReturns
    \/ MetadataReturns
    \/ PayloadsReturns
    \/ ParseUnsignedReturns
    \/ CombineReturns
    \/ ParseSignedReturns
    \/ SubmitReturns

Spec == Init /\ [][Next]_vars

---------------------------------------------------------------------------
(* Two submissions on one client: each is a future with its own arguments and
   locals; the executor may run either one whenever it is not inside a step *)
\* the arguments, locals and outcome of the submission that is running
Suspended ==
    [network_identifier |-> network_identifier, keys |-> keys,
     operations |-> operations, expiry_time_secs |-> expiry_time_secs,
     sequence_number |-> sequence_number, pc |-> pc, calls |-> calls,
     returned |-> returned, last_response |-> last_response,
     public_keys |-> public_keys, metadata |-> metadata,
     unsigned_response |-> unsigned_response, signatures |-> signatures,
     signers |-> signers, signed_txn |-> signed_txn, result |-> result]

\* a submission that has been called but not polled yet
Called_with(net, kmap, ops, expiry, seq) ==
    [network_identifier |-> net, keys |-> kmap, operations |-> ops,
     expiry_time_secs |-> expiry, sequence_number |-> seq, pc |-> "start",
     calls |-> <<>>, returned |-> 0, last_response |-> NoResponse,
     public_keys |-> <<>>, metadata |-> None, unsigned_response |-> None,
     signatures |-> <<>>, signers |-> <<>>, signed_txn |-> None, result |-> NoResult]

\* one caller transfers and the other creates an account; to keep the product of
\* the two submissions small neither holds a key, so each passes only with a
\* node that asks for no signer
InitConcurrent ==
    /\ network_identifier \in Networks
    /\ keys = <<>>
    /\ operations = <<Operation(0, "withdraw", "0xa", Some(val_to_amount(1, TRUE))),
                      Operation(1, "deposit", "0xb", Some(val_to_amount(1, FALSE)))>>
    /\ expiry_time_secs \in ExpiryTimes
    /\ sequence_number \in SequenceNumbers
    /\ pc = "start"
    /\ calls = <<>>
    /\ returned = 0
    /\ last_response = NoResponse
    /\ public_keys = <<>>
    /\ metadata = None
    /\ unsigned_response = None
    /\ signatures = <<>>
    /\ signers = <<>>
    /\ signed_txn = None
    /\ result = NoResult
    /\ entry = None
    /\ source = None
    /\ api_error = None
    /\ projection = None
    /\ client = RosettaClient
    /\ parked = Some(Called_with(network_identifier, <<>>,
                                 <<Operation_create_account(0, "0xb", "0xa")>>,
                                 expiry_time_secs, sequence_number))

\* the executor suspends the running submission and resumes the other one
Switch ==
    /\ parked.some
    /\ parked' = Some(Suspended)
    /\ network_identifier' = parked.val.network_identifier
    /\ keys' = parked.val.keys
    /\ operations' = parked.val.operations
    /\ expiry_time_secs' = parked.val.expiry_time_secs
    /\ sequence_number' = parked.val.sequence_number
    /\ pc' = parked.val.pc
    /\ calls' = parked.val.calls
    /\ returned' = parked.val.returned
    /\ last_response' = parked.val.last_response
    /\ public_keys' = parked.val.public_keys
    /\ metadata' = parked.val.metadata
    /\ unsigned_response' = parked.val.unsigned_response
    /\ signatures' = parked.val.signatures
    /\ signers' = parked.val.signers
    /\ signed_txn' = parked.val.signed_txn
    /\ result' = parked.val.result
    /\ UNCHANGED <<entry, source, api_error, projection, client>>

NextConcurrent ==
    \/ Switch
    \/ CallPreprocess
    \/ PreprocessReturns
    \/ MetadataReturns
    \/ PayloadsReturns
    \/ ParseUnsignedReturns
    \/ CombineReturns
    \/ ParseSignedReturns
    \/ SubmitReturns

SpecConcurrent == InitConcurrent /\ [][NextConcurrent]_vars

---------------------------------------------------------------------------
(* The entry points transfer and create_account *)
Amounts == {1, 2}

\* the calls a user can make: one signing key, any receiver or new account
EntryCalls ==
    [op : {"transfer"}, private_key : {"k1"}, receiver : Addresses, amount : Amounts]
    \cup [op : {"create_account"}, private_key : {"k1"}, new_account : Addresses]

DeriveRequest ==
    [endpoint |-> "construction/derive",
     network_identifier |-> network_identifier,
     public_key |-> public_key(entry.val.private_key)]

DeriveResponses == [account_identifier : {None} \cup {Some(a) : a \in AccountIds}]

\* variant of transfer that withdraws from the receiver and deposits to the sender
transfer_reversed(sender, private_key, receiver, amount) ==
    [keys |-> (sender :> private_key),
     operations |-> <<Operation_withdraw(0, receiver, NativeCoin, amount),
                      Operation_deposit(1, sender, NativeCoin, amount)>>]

\* transfer, lines 190-198: the key map and the operations handed to submit_operations
transfer(sender, private_key, receiver, amount) ==
    [keys |-> (sender :> private_key),
     operations |-> <<Operation_withdraw(0, sender, NativeCoin, amount),
                      Operation_deposit(1, receiver, NativeCoin, amount)>>]

\* variant of create_account that names the new account as its own funder
create_account_self_funded(sender, private_key, new_account) ==
    [keys |-> (sender :> private_key),
     operations |-> <<Operation_create_account(0, new_account, new_account)>>]

\* create_account, lines 160-167
create_account(sender, private_key, new_account) ==
    [keys |-> (sender :> private_key),
     operations |-> <<Operation_create_account(0, new_account, sender)>>]

InitEntry ==
    /\ network_identifier \in Networks
    /\ keys = <<>>
    /\ operations = <<>>
    /\ expiry_time_secs \in ExpiryTimes
    /\ sequence_number \in SequenceNumbers
    /\ pc = "entry"
    /\ calls = <<>>
    /\ returned = 0
    /\ last_response = NoResponse
    /\ public_keys = <<>>
    /\ metadata = None
    /\ unsigned_response = None
    /\ signatures = <<>>
    /\ signers = <<>>
    /\ signed_txn = None
    /\ result = NoResult
    /\ entry \in {Some(e) : e \in EntryCalls}
    /\ source = None
    /\ api_error = None
    /\ projection = None
    /\ client = RosettaClient
    /\ parked = None

(* get_account_address -> derive_account, lines 216-272 *)
CallDerive ==
    /\ pc = "entry"
    /\ Issue(DeriveRequest, "derive")
    /\ UNCHANGED <<inputs, outside, returned, last_response, public_keys, metadata,
                   unsigned_response, signatures, signers, signed_txn>>

\* variant of DeriveReturns that goes on with a default sender when the response
\* names no account
DeriveReturns_defaulting ==
    /\ pc = "derive"
    /\ returned' = returned + 1
    /\ UNCHANGED <<network_identifier, expiry_time_secs, sequence_number, outside,
                   signatures, signers>>
    /\ \/ CallFails /\ UNCHANGED <<keys, operations>>
       \/ \E response \in DeriveResponses :
            /\ last_response' = Response(response)
            /\ LET account == IF response.account_identifier.some
                              THEN response.account_identifier.val ELSE "0xa" IN
               IF ~account_address(account).some
               THEN /\ Finish(Err(anyhow("invalid account address")))
                    /\ UNCHANGED <<keys, operations>>
               ELSE LET sender == account_address(account).val
                        call == entry.val
                        built == IF call.op = "transfer"
                                 THEN transfer(sender, call.private_key, call.receiver,
                                               call.amount)
                                 ELSE create_account(sender, call.private_key,
                                                     call.new_account)
                    IN /\ keys' = built.keys
                       /\ operations' = built.operations
                       /\ Issue(PreprocessRequest', "preprocess")
                       /\ UNCHANGED <<public_keys, metadata, unsigned_response,
                                      signed_txn>>

(* derive_account 265-278, get_account_address 217-219, then transfer 190-207 or
   create_account 160-176, up to the preprocess call of metadata_for_ops *)
DeriveReturns ==
    /\ pc = "derive"
    /\ returned' = returned + 1
    /\ UNCHANGED <<network_identifier, expiry_time_secs, sequence_number, outside,
                   signatures, signers>>
    /\ \/ CallFails /\ UNCHANGED <<keys, operations>>
       \/ \E response \in DeriveResponses :
            /\ last_response' = Response(response)
            /\ IF ~response.account_identifier.some
               THEN /\ Finish(Err(anyhow("Failed to find account address for key")))
                    /\ UNCHANGED <<keys, operations>>
               ELSE IF ~account_address(response.account_identifier.val).some
               THEN /\ Finish(Err(anyhow("invalid account address")))
                    /\ UNCHANGED <<keys, operations>>
               ELSE LET sender == account_address(response.account_identifier.val).val
                        call == entry.val
                        built == IF call.op = "transfer"
                                 THEN transfer(sender, call.private_key, call.receiver,
                                               call.amount)
                                 ELSE create_account(sender, call.private_key,
                                                     call.new_account)
                    IN /\ keys' = built.keys
                       /\ operations' = built.operations
                       /\ Issue(PreprocessRequest', "preprocess")
                       /\ UNCHANGED <<public_keys, metadata, unsigned_response,
                                      signed_txn>>

NextEntry ==
    \/ CallDerive
    \/ DeriveReturns
    \/ PreprocessReturns
    \/ MetadataReturns
    \/ PayloadsReturns
    \/ ParseUnsignedReturns
    \/ CombineReturns
    \/ ParseSignedReturns
    \/ SubmitReturns

SpecEntry == InitEntry /\ [][NextEntry]_vars

\* the executor keeps polling the future, and every issued call returns
SpecEntryFair ==
    /\ SpecEntry
    /\ WF_vars(CallDerive)
    /\ WF_vars(DeriveReturns)
    /\ WF_vars(PreprocessReturns)
    /\ WF_vars(MetadataReturns)
    /\ WF_vars(PayloadsReturns)
    /\ WF_vars(ParseUnsignedReturns)
    /\ WF_vars(CombineReturns)
    /\ WF_vars(ParseSignedReturns)
    /\ WF_vars(SubmitReturns)

---------------------------------------------------------------------------
(* The error taxonomy, crates/aptos-rosetta/src/error.rs *)
\* kinds with no payload, and kinds carrying an Option payload
UnitKinds ==
    {"BlockParameterConflict", "TransactionIsPending", "NetworkIdentifierMismatch",
     "ChainIdMismatch", "InvalidSignatureType", "InvalidMaxGasFees",
     "InvalidGasMultiplier", "InvalidOperations", "MissingPayloadMetadata",
     "NodeIsOffline"}
LocalPayloadKinds ==
    {"DeserializationFailed", "InvalidTransferOperations", "UnsupportedCurrency",
     "UnsupportedSignatureCount", "TransactionParseError"}
RestKinds ==
    {"InternalError", "AccountNotFound", "ResourceNotFound", "ModuleNotFound",
     "StructFieldNotFound", "VersionNotFound", "TransactionNotFound",
     "TableItemNotFound", "BlockNotFound", "VersionPruned", "BlockPruned",
     "InvalidInput", "InvalidTransactionUpdate", "SequenceNumberTooOld", "VmError",
     "MempoolIsFull"}
ApiErrorKinds == UnitKinds \cup LocalPayloadKinds \cup RestKinds

ApiError(kind, details) == [kind |-> kind, details |-> details]

\* AptosErrorCode as u32
AptosErrorCode(name) ==
    CASE name = "AccountNotFound" -> 101
      [] name = "ResourceNotFound" -> 102
      [] name = "ModuleNotFound" -> 103
      [] name = "StructFieldNotFound" -> 104
      [] name = "VersionNotFound" -> 105
      [] name = "TransactionNotFound" -> 106
      [] name = "TableItemNotFound" -> 107
      [] name = "BlockNotFound" -> 108
      [] name = "VersionPruned" -> 200
      [] name = "BlockPruned" -> 201
      [] name = "InvalidInput" -> 300
      [] name = "InvalidTransactionUpdate" -> 401
      [] name = "SequenceNumberTooOld" -> 402
      [] name = "VmError" -> 403
      [] name = "HealthCheckFailed" -> 500
      [] name = "MempoolIsFull" -> 501
      [] name = "InternalError" -> 600
      [] name = "WebFrameworkError" -> 601
      [] name = "BcsNotSupported" -> 602
      [] name = "ApiDisabled" -> 603

\* variant of code that gives TransactionParseError the number of NodeIsOffline
code_colliding(error) ==
    CASE error.kind = "BlockParameterConflict" -> 0
      [] error.kind = "TransactionIsPending" -> 1
      [] error.kind = "NetworkIdentifierMismatch" -> 2
      [] error.kind = "ChainIdMismatch" -> 3
      [] error.kind = "DeserializationFailed" -> 4
      [] error.kind = "InvalidTransferOperations" -> 5
      [] error.kind = "InvalidSignatureType" -> 6
      [] error.kind = "InvalidMaxGasFees" -> 7
      [] error.kind = "InvalidGasMultiplier" -> 8
      [] error.kind = "InvalidOperations" -> 9
      [] error.kind = "MissingPayloadMetadata" -> 10
      [] error.kind = "UnsupportedCurrency" -> 11
      [] error.kind = "UnsupportedSignatureCount" -> 12
      [] error.kind = "NodeIsOffline" -> 13
      [] error.kind = "TransactionParseError" -> 13
      [] error.kind \in RestKinds -> AptosErrorCode(error.kind)

\* variant of code that numbers InternalError as the next protocol-local kind
code_internal_local(error) ==
    CASE error.kind = "BlockParameterConflict" -> 0
      [] error.kind = "TransactionIsPending" -> 1
      [] error.kind = "NetworkIdentifierMismatch" -> 2
      [] error.kind = "ChainIdMismatch" -> 3
      [] error.kind = "DeserializationFailed" -> 4
      [] error.kind = "InvalidTransferOperations" -> 5
      [] error.kind = "InvalidSignatureType" -> 6
      [] error.kind = "InvalidMaxGasFees" -> 7
      [] error.kind = "InvalidGasMultiplier" -> 8
      [] error.kind = "InvalidOperations" -> 9
      [] error.kind = "MissingPayloadMetadata" -> 10
      [] error.kind = "UnsupportedCurrency" -> 11
      [] error.kind = "UnsupportedSignatureCount" -> 12
      [] error.kind = "NodeIsOffline" -> 13
      [] error.kind = "TransactionParseError" -> 14
      [] error.kind = "InternalError" -> 15
      [] error.kind \in RestKinds -> AptosErrorCode(error.kind)

\* ApiError::code
code(error) ==
    CASE error.kind = "BlockParameterConflict" -> 0
      [] error.kind = "TransactionIsPending" -> 1
      [] error.kind = "NetworkIdentifierMismatch" -> 2
      [] error.kind = "ChainIdMismatch" -> 3
      [] error.kind = "DeserializationFailed" -> 4
      [] error.kind = "InvalidTransferOperations" -> 5
      [] error.kind = "InvalidSignatureType" -> 6
      [] error.kind = "InvalidMaxGasFees" -> 7
      [] error.kind = "InvalidGasMultiplier" -> 8
      [] error.kind = "InvalidOperations" -> 9
      [] error.kind = "MissingPayloadMetadata" -> 10
      [] error.kind = "UnsupportedCurrency" -> 11
      [] error.kind = "UnsupportedSignatureCount" -> 12
      [] error.kind = "NodeIsOffline" -> 13
      [] error.kind = "TransactionParseError" -> 14
      [] error.kind \in RestKinds -> AptosErrorCode(error.kind)

\* variant of retriable that leaves BlockNotFound out
retriable_without_block(error) ==
    error.kind \in {"AccountNotFound", "MempoolIsFull"}

\* ApiError::retriable
retriable(error) ==
    error.kind \in {"AccountNotFound", "BlockNotFound", "MempoolIsFull"}

\* Display of an anyhow::Error: its message, with the formatted arguments
to_string(err) ==
    IF err.ctx.some THEN <<err.msg, err.ctx.val>> ELSE <<err.msg>>

\* variant of from_anyhow that classifies like the neighbouring conversions
from_anyhow_as_deserialization(err) ==
    ApiError("DeserializationFailed", Some(to_string(err)))

\* impl From<anyhow::Error> for ApiError
from_anyhow(err) ==
    ApiError("InternalError", Some(to_string(err)))

\* ApiError::all(): one value of every kind, payloads absent
all ==
    << ApiError("BlockParameterConflict", None),
       ApiError("TransactionIsPending", None),
       ApiError("NetworkIdentifierMismatch", None),
       ApiError("ChainIdMismatch", None),
       ApiError("DeserializationFailed", None),
       ApiError("InvalidTransferOperations", None),
       ApiError("InvalidSignatureType", None),
       ApiError("InvalidMaxGasFees", None),
       ApiError("InvalidGasMultiplier", None),
       ApiError("InvalidOperations", None),
       ApiError("MissingPayloadMetadata", None),
       ApiError("UnsupportedCurrency", None),
       ApiError("UnsupportedSignatureCount", None),
       ApiError("NodeIsOffline", None),
       ApiError("TransactionParseError", None),
       ApiError("InternalError", None),
       ApiError("AccountNotFound", None),
       ApiError("ResourceNotFound", None),
       ApiError("ModuleNotFound", None),
       ApiError("StructFieldNotFound", None),
       ApiError("VersionNotFound", None),
       ApiError("TransactionNotFound", None),
       ApiError("TableItemNotFound", None),
       ApiError("BlockNotFound", None),
       ApiError("VersionPruned", None),
       ApiError("BlockPruned", None),
       ApiError("InvalidInput", None),
       ApiError("InvalidTransactionUpdate", None),
       ApiError("SequenceNumberTooOld", None),
       ApiError("VmError", None),
       ApiError("MempoolIsFull", None) >>

\* variant of status_code that answers 500 once an error carries a payload
status_code_by_payload(error) ==
    IF error.details.some /\ error.kind = "InternalError" THEN 500
    ELSE CASE error.kind \in {"AccountNotFound", "BlockNotFound", "ResourceNotFound",
                              "ModuleNotFound", "VersionNotFound", "TransactionNotFound",
                              "StructFieldNotFound", "TableItemNotFound"} -> 404
           [] error.kind = "MempoolIsFull" -> 507
           [] error.kind \in {"BlockPruned", "VersionPruned"} -> 410
           [] error.kind = "NodeIsOffline" -> 405
           [] OTHER -> 400

\* variant of status_code that answers a pruned kind like a missing one
status_code_pruned_as_missing(error) ==
    CASE error.kind \in {"AccountNotFound", "BlockNotFound", "ResourceNotFound",
                         "ModuleNotFound", "VersionNotFound", "TransactionNotFound",
                         "StructFieldNotFound", "TableItemNotFound",
                         "BlockPruned", "VersionPruned"} -> 404
      [] error.kind = "MempoolIsFull" -> 507
      [] error.kind = "NodeIsOffline" -> 405
      [] OTHER -> 400

\* ApiError::status_code, as the number of the StatusCode
status_code(error) ==
    CASE error.kind \in {"AccountNotFound", "BlockNotFound", "ResourceNotFound",
                         "ModuleNotFound", "VersionNotFound", "TransactionNotFound",
                         "StructFieldNotFound", "TableItemNotFound"} -> 404
      [] error.kind = "MempoolIsFull" -> 507
      [] error.kind \in {"BlockPruned", "VersionPruned"} -> 410
      [] error.kind = "NodeIsOffline" -> 405
      [] OTHER -> 400

\* the variants of AptosErrorCode
AptosErrorCodes ==
    {"AccountNotFound", "ResourceNotFound", "ModuleNotFound", "StructFieldNotFound",
     "VersionNotFound", "TransactionNotFound", "TableItemNotFound", "BlockNotFound",
     "VersionPruned", "BlockPruned", "InvalidInput", "InvalidTransactionUpdate",
     "SequenceNumberTooOld", "VmError", "HealthCheckFailed", "MempoolIsFull",
     "InternalError", "WebFrameworkError", "BcsNotSupported", "ApiDisabled"}

\* messages and display texts an error can carry
Messages == {"m1", "m2"}

\* the errors that convert into an ApiError; `text` is what to_string() displays
RestErrors ==
    [type : {"RestError::Api"}, error_code : AptosErrorCodes, message : Messages]
    \cup [type : {"RestError::Bcs", "RestError::Json", "RestError::WebClient",
                  "RestError::UrlParse", "RestError::Timeout", "RestError::Unknown"},
          text : Messages]
ParseErrors ==
    [type : {"AccountAddressParseError", "FromHexError", "bcs::Error", "ParseIntError"},
     text : Messages]
AnyhowErrors == [type : {"anyhow::Error"}, err : {anyhow(m) : m \in Messages}]
SourceErrors == RestErrors \cup ParseErrors \cup AnyhowErrors

\* impl From<RestError> for ApiError
from_rest_error(err) ==
    CASE err.type = "RestError::Api" ->
           (CASE err.error_code \in
                   {"AccountNotFound", "ResourceNotFound", "ModuleNotFound",
                    "StructFieldNotFound", "VersionNotFound", "TransactionNotFound",
                    "TableItemNotFound", "BlockNotFound", "VersionPruned", "BlockPruned",
                    "InvalidInput", "SequenceNumberTooOld", "VmError", "MempoolIsFull",
                    "InternalError"} -> ApiError(err.error_code, Some(err.message))
              [] err.error_code = "InvalidTransactionUpdate" ->
                   ApiError("InvalidInput", Some(err.message))
              [] err.error_code = "BcsNotSupported" ->
                   ApiError("InvalidInput", Some(err.message))
              [] err.error_code \in {"HealthCheckFailed", "WebFrameworkError",
                                     "ApiDisabled"} ->
                   ApiError("InternalError", Some(err.message)))
      [] err.type \in {"RestError::Bcs", "RestError::Json"} ->
           ApiError("DeserializationFailed", None)
      [] err.type \in {"RestError::WebClient", "RestError::UrlParse",
                       "RestError::Timeout", "RestError::Unknown"} ->
           ApiError("InternalError", Some(err.text))

\* impl From<AccountAddressParseError> for ApiError
from_account_address_parse_error(err) == ApiError("DeserializationFailed", Some(err.text))

\* impl From<FromHexError> for ApiError
from_hex_error(err) == ApiError("DeserializationFailed", Some(err.text))

\* impl From<bcs::Error> for ApiError
from_bcs_error(err) == ApiError("DeserializationFailed", Some(err.text))

\* impl From<std::num::ParseIntError> for ApiError
from_parse_int_error(err) == ApiError("DeserializationFailed", Some(err.text))

\* the From impl the compiler selects for the error's type
into_api_error(err) ==
    CASE err.type = "AccountAddressParseError" -> from_account_address_parse_error(err)
      [] err.type = "FromHexError" -> from_hex_error(err)
      [] err.type = "bcs::Error" -> from_bcs_error(err)
      [] err.type = "ParseIntError" -> from_parse_int_error(err)
      [] err.type = "anyhow::Error" -> from_anyhow(err.err)
      [] OTHER -> from_rest_error(err)

\* signer counts an UnsupportedSignatureCount can carry (Option<usize>)
SignatureCounts == {0, 12}

\* every value of the enum ApiError, with a payload absent or present
ApiErrors ==
    {ApiError(k, None) : k \in ApiErrorKinds}
    \cup {ApiError(k, Some(m)) :
            k \in (LocalPayloadKinds \cup RestKinds) \ {"UnsupportedSignatureCount"},
            m \in Messages}
    \cup {ApiError("UnsupportedSignatureCount", Some(n)) : n \in SignatureCounts}

\* variant of message in which a present payload replaces the default text
message_overridden(error) ==
    IF error.details.some /\ error.kind # "UnsupportedSignatureCount"
    THEN error.details.val
    ELSE "default text"

\* ApiError::message: the text is chosen by the variant alone
message(error) ==
    CASE error.kind = "BlockParameterConflict" ->
           "Block parameter conflict. Must provide either hash or index but not both"
      [] error.kind = "TransactionIsPending" -> "Transaction is pending"
      [] error.kind = "NetworkIdentifierMismatch" -> "Network identifier doesn't match"
      [] error.kind = "ChainIdMismatch" -> "Chain Id doesn't match"
      [] error.kind = "DeserializationFailed" -> "Deserialization failed"
      [] error.kind = "InvalidTransferOperations" -> "Invalid operations for a transfer"
      [] error.kind = "AccountNotFound" -> "Account not found"
      [] error.kind = "InvalidSignatureType" -> "Invalid signature type"
      [] error.kind = "InvalidMaxGasFees" -> "Invalid max gas fee"
      [] error.kind = "InvalidGasMultiplier" -> "Invalid gas multiplier"
      [] error.kind = "InvalidOperations" -> "Invalid operations"
      [] error.kind = "MissingPayloadMetadata" -> "Payload metadata is missing"
      [] error.kind = "UnsupportedCurrency" -> "Currency is unsupported"
      [] error.kind = "UnsupportedSignatureCount" ->
           "Number of signatures is not supported"
      [] error.kind = "NodeIsOffline" ->
           "This API is unavailable for the node because he's offline"
      [] error.kind = "BlockNotFound" -> "Block is missing events"
      [] error.kind = "TransactionParseError" -> "Transaction failed to parse"
      [] error.kind = "InternalError" -> "Internal error"
      [] error.kind = "ResourceNotFound" -> "Resource not found"
      [] error.kind = "ModuleNotFound" -> "Module not found"
      [] error.kind = "StructFieldNotFound" -> "Struct field not found"
      [] error.kind = "VersionNotFound" -> "Version not found"
      [] error.kind = "TransactionNotFound" -> "Transaction not found"
      [] error.kind = "TableItemNotFound" -> "Table item not found"
      [] error.kind = "VersionPruned" -> "Version pruned"
      [] error.kind = "BlockPruned" -> "Block pruned"
      [] error.kind = "InvalidInput" -> "Invalid input"
      [] error.kind = "InvalidTransactionUpdate" ->
           "Invalid transaction update.  Can only update gas unit price"
      [] error.kind = "SequenceNumberTooOld" ->
           "Sequence number too old.  Please create a new transaction with an updated sequence number"
      [] error.kind = "VmError" -> "Transaction submission failed due to VM error"
      [] error.kind = "MempoolIsFull" -> "Mempool is full all accounts"

\* Display of one decimal digit
Digit(d) ==
    CASE d = 0 -> "0" [] d = 1 -> "1" [] d = 2 -> "2" [] d = 3 -> "3" [] d = 4 -> "4"
      [] d = 5 -> "5" [] d = 6 -> "6" [] d = 7 -> "7" [] d = 8 -> "8" [] d = 9 -> "9"

\* usize::to_string: the decimal digits, most significant first
RECURSIVE usize_to_string(_)
usize_to_string(n) ==
    IF n < 10 THEN Digit(n) ELSE usize_to_string(n \div 10) \o Digit(n % 10)

\* variant of details whose catch-all arm also takes the kinds of the REST API
details_local_only(error) ==
    IF error.kind \in LocalPayloadKinds /\ error.details.some
    THEN (IF error.kind = "UnsupportedSignatureCount"
          THEN Some([details |-> usize_to_string(error.details.val)])
          ELSE Some([details |-> error.details.val]))
    ELSE None

\* ApiError::details: the payload, as text, wrapped in ErrorDetails
details(error) ==
    LET inner ==
          CASE error.kind = "UnsupportedSignatureCount" ->
                 (IF error.details.some
                  THEN Some(usize_to_string(error.details.val)) ELSE None)
            [] error.kind \in (LocalPayloadKinds \cup RestKinds)
                                \ {"UnsupportedSignatureCount"} -> error.details
            [] OTHER -> None
    IN IF inner.some THEN Some([details |-> inner.val]) ELSE None

\* variant of the conversion that puts the payload where the description belongs
into_error_described(error) ==
    [message |-> message(error),
     code |-> code(error),
     retriable |-> retriable(error),
     details |-> None,
     description |-> details(error)]

\* impl From<ApiError> for types::Error
into_error(error) ==
    [message |-> message(error),
     code |-> code(error),
     retriable |-> retriable(error),
     details |-> details(error),
     description |-> None]

InitTaxonomy ==
    /\ network_identifier \in Networks
    /\ keys = <<>>
    /\ operations = <<>>
    /\ expiry_time_secs \in ExpiryTimes
    /\ sequence_number \in SequenceNumbers
    /\ pc = "done"
    /\ calls = <<>>
    /\ returned = 0
    /\ last_response = NoResponse
    /\ public_keys = <<>>
    /\ metadata = None
    /\ unsigned_response = None
    /\ signatures = <<>>
    /\ signers = <<>>
    /\ signed_txn = None
    /\ result = NoResult
    /\ entry = None
    /\ source = None
    /\ api_error = None
    /\ projection = None
    /\ client = RosettaClient
    /\ parked = None

pipeline ==
    <<inputs, pc, calls, returned, last_response, public_keys, metadata,
      unsigned_response, signatures, signers, signed_txn, result, entry, client, parked>>

\* an ApiError value is constructed directly
Construct ==
    /\ \E e \in ApiErrors : api_error' = Some(e)
    /\ source' = None
    /\ projection' = None
    /\ UNCHANGED pipeline

\* an error of another type is converted with `?` or into()
Convert ==
    /\ \E err \in SourceErrors :
         /\ source' = Some(err)
         /\ api_error' = Some(into_api_error(err))
    /\ projection' = None
    /\ UNCHANGED pipeline

\* the value is turned into the wire Error and the response status
Project ==
    /\ api_error.some
    /\ projection = None
    /\ projection' = Some([code |-> code(api_error.val),
                           retriable |-> retriable(api_error.val),
                           status_code |-> status_code(api_error.val),
                           message |-> message(api_error.val),
                           error |-> into_error(api_error.val)])
    /\ UNCHANGED <<pipeline, source, api_error>>

NextTaxonomy ==
    \/ Construct
    \/ Convert
    \/ Project

SpecTaxonomy == InitTaxonomy /\ [][NextTaxonomy]_vars

---------------------------------------------------------------------------
(* The order of the remote calls *)
CallTag(request) ==
    IF request.endpoint = "construction/parse"
    THEN (IF request.signed THEN "parse(signed=true)" ELSE "parse(signed=false)")
    ELSE request.endpoint

Pipeline ==
    <<"construction/preprocess", "construction/metadata", "construction/payloads",
      "parse(signed=false)", "construction/combine", "parse(signed=true)",
      "construction/submit">>

CallTags == [i \in 1..Len(calls) |-> CallTag(calls[i])]

Called(tag) == \E i \in 1..Len(calls) : CallTag(calls[i]) = tag

SubmissionFailed == result.kind \in {"err", "panic"}

\* the response to the n-th call is the one received last, and it is a typed response
Answered(n) == returned = n /\ last_response.kind = "ok"

(* C1: the remote calls are issued one at a time, in the order preprocess,
   metadata, payloads, parse(signed=false), combine, parse(signed=true), submit:
   at most one call is awaiting its response, a call is awaited exactly while the
   submission is suspended on it, and a submission that returned a transaction
   identifier has issued exactly these seven calls and received seven responses. *)
C1_SequentialPipeline ==
    /\ Len(calls) <= Len(Pipeline)
    /\ \A i \in 1..Len(calls) : CallTags[i] = Pipeline[i]
    /\ Len(calls) - returned \in {0, 1}
    /\ (Len(calls) - returned = 1) <=> (pc \notin {"start", "done"})
    /\ pc \notin {"start", "done"} => pc = CASE Len(calls) = 1 -> "preprocess"
                                             [] Len(calls) = 2 -> "metadata"
                                             [] Len(calls) = 3 -> "payloads"
                                             [] Len(calls) = 4 -> "parse_unsigned"
                                             [] Len(calls) = 5 -> "combine"
                                             [] Len(calls) = 6 -> "parse_signed"
                                             [] OTHER -> "submit"
    /\ result.kind = "ok" => CallTags = Pipeline /\ returned = Len(Pipeline)

C1_Witness ==
    /\ result.kind = "ok"
    /\ Len(calls) = 7

(* C2: unsigned_transaction succeeds only if the parse(signed=false) response
   carries no signer list and its operation list equals the input list; when the
   response carries a signer list or its operations differ (in an element or in
   order), the submission ends with an error and neither combine nor submit has
   been called. *)
C2_UnsignedParseChecked ==
    Answered(4) =>
        LET response == last_response.body
            bad == \/ response.account_identifier_signers.some
                   \/ response.operations # operations
        IN  /\ bad => /\ pc = "done"
                      /\ result.kind = "err"
                      /\ ~Called("construction/combine")
                      /\ ~Called("construction/submit")
            /\ Called("construction/combine") => ~bad

Reverse(seq) == [i \in 1..Len(seq) |-> seq[Len(seq) + 1 - i]]

\* the node parsed the same operations back in another order, with no signers
C2_Witness ==
    /\ Answered(4)
    /\ ~last_response.body.account_identifier_signers.some
    /\ Len(operations) = 2
    /\ last_response.body.operations = Reverse(operations)
    /\ pc = "done"
    /\ result.kind = "err"

PayloadAccounts(payloads) ==
    [i \in 1..Len(payloads) |-> payloads[i].account_identifier.val]

(* C3: sign_transaction succeeds only if the parse(signed=true) response carries
   a signer list equal, as an ordered sequence, to the accounts of the signing
   payloads in the order payloads returned them, and its operation list equals
   the input list; otherwise the submission ends with an error and submit is not
   called. *)
C3_SignedParseChecked ==
    [][ (pc = "parse_signed" /\ last_response'.kind = "ok") =>
          LET response == last_response'.body
              good == /\ response.account_identifier_signers.some
                      /\ response.account_identifier_signers.val
                            = PayloadAccounts(unsigned_response.val.payloads)
                      /\ response.operations = operations
          IN  /\ good <=> pc' = "submit"
              /\ ~good => /\ pc' = "done"
                          /\ result'.kind = "err"
                          /\ calls' = calls ]_vars

\* the node parsed the two signers back in the other order
C3_Witness ==
    /\ Answered(6)
    /\ last_response.body.account_identifier_signers.some
    /\ Len(signers) = 2
    /\ signers[1] # signers[2]
    /\ last_response.body.account_identifier_signers.val = Reverse(signers)
    /\ last_response.body.operations = operations
    /\ pc = "done"
    /\ result.kind = "err"
    /\ ~Called("construction/submit")

(* C4: whenever the parse(signed=true) response carries an empty signer list,
   the submission fails and submit is not called, whatever list of signing
   payloads the payloads call returned (an empty one included). *)
C4_EmptySignersRejected ==
    (/\ Answered(6)
     /\ last_response.body.account_identifier_signers.some
     /\ last_response.body.account_identifier_signers.val = <<>>)
    => /\ pc = "done"
       /\ SubmissionFailed
       /\ ~Called("construction/submit")

\* the derived signing message of the unsigned transaction, when it decodes
DerivedMessage(response) ==
    LET decoded == decode_unsigned(response.unsigned_transaction) IN
    IF decoded.some THEN Some(signing_message_hex(decoded.val)) ELSE None

\* the positions of the signing payloads whose message is not the derived one
Mismatched(response) ==
    {i \in 1..Len(response.payloads) :
        /\ DerivedMessage(response).some
        /\ response.payloads[i].hex_bytes # DerivedMessage(response).val}

Min(S) == CHOOSE x \in S : \A y \in S : x <= y

(* C5: when a signing payload returned by payloads carries message bytes that
   differ from the signing message derived locally from the unsigned transaction
   blob, the submission fails, no signature is produced for that payload or any
   later one, and combine is not called. *)
C5_MessageMismatchStopsSigning ==
    [][ (/\ pc = "parse_unsigned"
         /\ Mismatched(unsigned_response.val) # {})
        => /\ pc' = "done"
           /\ result'.kind \in {"err", "panic"}
           /\ Len(signatures') < Min(Mismatched(unsigned_response.val))
           /\ calls' = calls ]_vars

\* the first payload was signed, the second carried another message
C5_Witness ==
    /\ pc = "done"
    /\ result.kind = "panic"
    /\ result.msg = "assertion failed: signing_message == payload.hex_bytes"
    /\ Len(signatures) = 1
    /\ Len(signers) = 2
    /\ ~Called("construction/combine")

(* C6: every failed local check of the pipeline ends the submission by
   returning an error value to the caller; none ends it by a panic. *)
C6_ChecksReturnErrors ==
    pc = "done" => result.kind \in {"ok", "err"}

Count(tag) == Cardinality({i \in 1..Len(calls) : CallTag(calls[i]) = tag})

(* C7: the orchestrator never retries and fails fast: once a remote call or a
   local check has failed the submission is over with no call in flight and
   none issued after the failure, and over a run each of preprocess, metadata,
   payloads, combine and submit is called at most once and parse at most twice,
   once with signed=false and then once with signed=true. *)
C7_NoRetryFailFast ==
    /\ \A tag \in Range(Pipeline) : Count(tag) <= 1
    /\ Called("parse(signed=true)") =>
          \E i, j \in 1..Len(calls) :
             /\ i < j
             /\ CallTag(calls[i]) = "parse(signed=false)"
             /\ CallTag(calls[j]) = "parse(signed=true)"
    /\ SubmissionFailed =>
          /\ pc = "done"
          /\ Len(calls) = returned
    /\ last_response.kind = "failed" =>
          /\ pc = "done"
          /\ result = Err(last_response.error)

\* combine failed: five calls were issued and nothing after the failure
C7_Witness ==
    /\ SubmissionFailed
    /\ last_response.kind = "failed"
    /\ CallTags = SubSeq(Pipeline, 1, 5)
    /\ returned = 5

\* the required accounts of a preprocess response that have no key in the map
Unresolved(response, kmap) ==
    {i \in 1..Len(response.required_public_keys.val) :
        LET address == account_address(response.required_public_keys.val[i]) IN
        ~address.some \/ address.val \notin DOMAIN kmap}

(* C8: metadata is called only if every account of the preprocess response's
   required-signer list resolved to a key of the caller's key map and the
   response carried metadata options; when a required account has no key the
   submission fails right there, with preprocess the only call made. *)
C8_MetadataNeedsKeys ==
    /\ pc = "metadata" =>
          /\ last_response.kind = "ok"
          /\ last_response.body.required_public_keys.some
          /\ Unresolved(last_response.body, keys) = {}
          /\ last_response.body.options.some
          /\ Len(public_keys) = Len(last_response.body.required_public_keys.val)
    /\ (/\ Answered(1)
        /\ last_response.body.required_public_keys.some
        /\ Unresolved(last_response.body, keys) # {})
       => /\ pc = "done"
          /\ result.kind = "err"
          /\ CallTags = <<"construction/preprocess">>

\* the caller holds the key of the first required account and not of the second
C8_Witness ==
    /\ Answered(1)
    /\ last_response.body.required_public_keys = Some(<<"0xa", "0xb">>)
    /\ last_response.body.options.some
    /\ DOMAIN keys = {"0xa"}
    /\ pc = "done"
    /\ result = Err(anyhow("No public key found for account"))

(* C9: a preprocess response whose required-public-keys list is absent, and
   likewise one whose list is present but empty, fails the submission before
   any call to metadata. *)
C9_EmptyRequiredKeysRejected ==
    (/\ Answered(1)
     /\ \/ ~last_response.body.required_public_keys.some
        \/ last_response.body.required_public_keys.val = <<>>)
    => /\ pc = "done"
       /\ result.kind = "err"
       /\ ~Called("construction/metadata")

\* the errors metadata_for_ops raises itself
MetadataForOpsFailures ==
    {"No public key found for account",
     "No public keys found required for transaction",
     "No metadata options returned from preprocess response"}

FailedInMetadataForOps ==
    /\ pc = "done"
    /\ result.kind = "err"
    /\ result.error.msg \in MetadataForOpsFailures

(* C10, as stated: a failure of metadata_for_ops caused by a required account
   with no key, an absent required-signers list or absent metadata options is
   classified by the taxonomy as MissingPayloadMetadata, code 10. *)
C10_ClassifiedMissingPayloadMetadata ==
    FailedInMetadataForOps =>
        /\ from_anyhow(result.error).kind = "MissingPayloadMetadata"
        /\ code(from_anyhow(result.error)) = 10

(* C10, amended: such a failure is an anyhow error, which the taxonomy classifies
   as InternalError, code 600, carrying the failure's message text as its
   detail; it is never classified as MissingPayloadMetadata. *)
C10_ClassifiedInternalError ==
    FailedInMetadataForOps =>
        /\ from_anyhow(result.error).kind = "InternalError"
        /\ code(from_anyhow(result.error)) = 600
        /\ from_anyhow(result.error).details = Some(<<result.error.msg>>)
        /\ CallTags = <<"construction/preprocess">>

\* the preprocess response named a required account and carried no options
C10_Witness ==
    /\ Answered(1)
    /\ last_response.body.required_public_keys = Some(<<"0xa">>)
    /\ ~last_response.body.options.some
    /\ result = Err(anyhow("No metadata options returned from preprocess response"))
    /\ code(from_anyhow(result.error)) = 600

\* a remote call failed with a non-2xx response whose Error object is retriable
RemoteRetriableFailure ==
    /\ last_response.kind = "failed"
    /\ last_response.error.ctx.some
    /\ last_response.error.ctx.val.retriable

(* C11: when a remote call fails with a non-2xx response whose error object has
   retriable=true, the error the caller of submit_operations receives is
   classified by the taxonomy as a retriable kind carrying the remote code. *)
C11_RemoteRetriablePreserved ==
    RemoteRetriableFailure =>
        /\ result.kind = "err"
        /\ retriable(from_anyhow(result.error))
        /\ code(from_anyhow(result.error)) = last_response.error.ctx.val.code

\* a payloads response a consistent node gives: the blob decodes and every
\* payload names an account whose key the caller holds and carries the derived message
PayloadsConsistent(response, kmap) ==
    /\ DerivedMessage(response).some
    /\ \A i \in 1..Len(response.payloads) :
          LET payload == response.payloads[i] IN
          /\ payload.account_identifier.some
          /\ account_address(payload.account_identifier.val).some
          /\ account_address(payload.account_identifier.val).val \in DOMAIN kmap
          /\ payload.hex_bytes = DerivedMessage(response).val

\* the response just received is the one a consistent node gives at this point
ConsistentStep ==
    /\ last_response'.kind = "ok"
    /\ LET response == last_response'.body IN
       CASE pc = "preprocess" ->
                /\ response.required_public_keys.some
                /\ Unresolved(response, keys) = {}
                /\ response.options.some
         [] pc = "parse_unsigned" ->
                /\ ~response.account_identifier_signers.some
                /\ response.operations = operations
                /\ PayloadsConsistent(unsigned_response.val, keys)
         [] pc = "parse_signed" ->
                /\ response.account_identifier_signers.some
                /\ response.account_identifier_signers.val
                      = PayloadAccounts(unsigned_response.val.payloads)
                /\ response.operations = operations
         [] OTHER -> TRUE

NextCall(at) ==
    CASE at = "preprocess" -> "metadata"
      [] at = "metadata" -> "payloads"
      [] at = "payloads" -> "parse_unsigned"
      [] at = "parse_unsigned" -> "combine"
      [] at = "combine" -> "parse_signed"
      [] at = "parse_signed" -> "submit"

(* C12: when a remote call succeeds with the response a consistent node gives
   (required signers all have keys and options are present, the unsigned parse
   returns no signers and the input operations, every payload carries the derived
   signing message, the signed parse returns the payload accounts in order and
   the input operations), the submission issues the next call of the pipeline; so
   it reaches submit, and when submit succeeds it returns exactly the transaction
   identifier carried by the submit response. *)
C12_ConsistentNodeIsSubmitted ==
    [][ (pc \in {"preprocess", "metadata", "payloads", "parse_unsigned", "combine",
                 "parse_signed", "submit"} /\ ConsistentStep)
        => IF pc = "submit"
           THEN /\ pc' = "done"
                /\ result' = Ok(last_response'.body.transaction_identifier)
           ELSE /\ pc' = NextCall(pc)
                /\ result'.kind = "none"
                /\ Len(calls') = Len(calls) + 1 ]_vars

\* two payloads were signed and the identifier of the submit response came back
C12_Witness ==
    /\ Answered(7)
    /\ last_response.body.transaction_identifier = "hash2"
    /\ result = Ok("hash2")
    /\ Len(signatures) = 2
    /\ CallTags = Pipeline

\* the derive call has just been answered with an identifier that parses to an address
Derived ==
    /\ pc = "derive"
    /\ last_response'.kind = "ok"
    /\ last_response'.body.account_identifier.some
    /\ account_address(last_response'.body.account_identifier.val).some

DerivedSender == account_address(last_response'.body.account_identifier.val).val

\* what the pipeline is started with: the arguments built on return from derive go
\* into the preprocess request, and no later step changes them
HandedToPipeline(ops, kmap) ==
    /\ operations' = ops
    /\ keys' = kmap
    /\ pc' = "preprocess"
    /\ calls'[Len(calls')].endpoint = "construction/preprocess"
    /\ calls'[Len(calls')].operations = ops

InPipeline == pc \notin {"entry", "derive"}

(* C13: for every receiver and amount, transfer hands the pipeline exactly two
   operations, index 0 a withdraw on the sender derived from the signing key with
   amount -amount and index 1 a deposit on the receiver with amount +amount, both
   in the native currency, and a key map holding exactly the derived sender's key;
   the pipeline never changes either. *)
C13_TransferOperations ==
    [][ (entry.some /\ entry.val.op = "transfer") =>
        /\ Derived =>
             HandedToPipeline(
               << [operation_index |-> 0, type |-> "withdraw", account |-> DerivedSender,
                   amount |-> Some([value |-> [minus |-> TRUE,
                                                digits |-> entry.val.amount],
                                    currency |-> NativeCoin]),
                   metadata |-> None],
                  [operation_index |-> 1, type |-> "deposit",
                   account |-> entry.val.receiver,
                   amount |-> Some([value |-> [minus |-> FALSE,
                                                digits |-> entry.val.amount],
                                    currency |-> NativeCoin]),
                   metadata |-> None] >>,
               [a \in {DerivedSender} |-> entry.val.private_key])
        /\ InPipeline => (operations' = operations /\ keys' = keys) ]_vars

\* a transfer of 1 from the derived sender 0xa to 0xb went through to submit
C13_Witness ==
    /\ entry.some /\ entry.val.op = "transfer"
    /\ entry.val.receiver = "0xb" /\ entry.val.amount = 1
    /\ result.kind = "ok"
    /\ Len(operations) = 2
    /\ operations[1].account = "0xa" /\ operations[1].amount.val.value.minus
    /\ operations[2].account = "0xb" /\ ~operations[2].amount.val.value.minus
    /\ DOMAIN keys = {"0xa"}

(* C14: for every new account, create_account hands the pipeline exactly one
   operation, a create_account at index 0 for new_account whose funder is the
   sender derived from the signing key, and a key map holding exactly the derived
   sender's key; the pipeline never changes either. *)
C14_CreateAccountOperation ==
    [][ (entry.some /\ entry.val.op = "create_account") =>
        /\ Derived =>
             HandedToPipeline(
               << [operation_index |-> 0, type |-> "create_account",
                   account |-> entry.val.new_account,
                   amount |-> None,
                   metadata |-> Some([sender |-> DerivedSender])] >>,
               [a \in {DerivedSender} |-> entry.val.private_key])
        /\ InPipeline => (operations' = operations /\ keys' = keys) ]_vars

\* the creation of 0xb funded by the derived sender 0xa went through to submit
C14_Witness ==
    /\ entry.some /\ entry.val.op = "create_account"
    /\ entry.val.new_account = "0xb"
    /\ result.kind = "ok"
    /\ Len(operations) = 1
    /\ operations[1].metadata = Some([sender |-> "0xa"])
    /\ keys = [a \in {"0xa"} |-> "k1"]

\* an ApiError value exists and has been projected to code, flag and status
Projected == api_error.some /\ projection.some

(* C15: for every kind of the taxonomy and whatever payload it carries, the
   retriable flag is true exactly when the kind is AccountNotFound, BlockNotFound
   or MempoolIsFull. *)
C15_RetriableExactlyThree ==
    Projected =>
        (projection.val.retriable
            <=> api_error.val.kind \in {"AccountNotFound", "BlockNotFound",
                                        "MempoolIsFull"})

\* a BlockNotFound carrying a payload was projected as retriable
C15_Witness ==
    /\ Projected
    /\ api_error.val.kind = "BlockNotFound"
    /\ api_error.val.details.some
    /\ projection.val.retriable

\* the positions of all() holding a value of this kind, or this code
PositionsOfKind(kind) == {i \in 1..Len(all) : all[i].kind = kind}
PositionsOfCode(n) == {i \in 1..Len(all) : code(all[i]) = n}

(* C16: the kind of every ApiError value occurs exactly once in all(), and its
   code is the code of no other entry of all(): code is unique per kind. *)
C16_CodesUnique ==
    Projected =>
        /\ Cardinality(PositionsOfKind(api_error.val.kind)) = 1
        /\ PositionsOfCode(projection.val.code) = PositionsOfKind(api_error.val.kind)
        /\ Len(all) = Cardinality(ApiErrorKinds)

\* the last protocol-local kind was projected and sits at one place of all()
C16_Witness ==
    /\ Projected
    /\ api_error.val.kind = "TransactionParseError"
    /\ PositionsOfCode(projection.val.code) = {15}

\* the kinds that exist only in this protocol layer
LocalKinds == UnitKinds \cup LocalPayloadKinds

(* C17: a protocol-local kind has a code in 0..14 and the protocol-local kinds
   use every integer of 0..14; a kind that mirrors a classification of the remote
   node has that classification's number, which lies in 100..603; no code lies
   outside the two ranges. *)
C17_CodeRanges ==
    Projected =>
        /\ api_error.val.kind \in LocalKinds => projection.val.code \in 0..14
        /\ api_error.val.kind \notin LocalKinds =>
              /\ api_error.val.kind \in AptosErrorCodes
              /\ projection.val.code = AptosErrorCode(api_error.val.kind)
              /\ projection.val.code \in 100..603
        /\ {code(ApiError(k, None)) : k \in LocalKinds} = 0..14

\* an InternalError was projected with the remote number 600
C17_Witness ==
    /\ Projected
    /\ api_error.val.kind = "InternalError"
    /\ projection.val.code = 600

(* C18: the status is 404 exactly for the eight not-found kinds, 507 exactly for
   MempoolIsFull, 410 exactly for VersionPruned and BlockPruned, 405 exactly for
   NodeIsOffline, and 400 for every other kind. *)
C18_StatusCodes ==
    Projected =>
        LET kind == api_error.val.kind
            status == projection.val.status_code
        IN /\ status = 404 <=> kind \in {"AccountNotFound", "BlockNotFound",
                                          "ModuleNotFound", "ResourceNotFound",
                                          "VersionNotFound", "TransactionNotFound",
                                          "StructFieldNotFound", "TableItemNotFound"}
           /\ status = 507 <=> kind = "MempoolIsFull"
           /\ status = 410 <=> kind \in {"VersionPruned", "BlockPruned"}
           /\ status = 405 <=> kind = "NodeIsOffline"
           /\ status \in {404, 507, 410, 405, 400}

\* a pruned version was projected as 410
C18_Witness ==
    /\ Projected
    /\ api_error.val.kind = "VersionPruned"
    /\ projection.val.status_code = 410

\* the value was converted from an error of the remote API
FromRemoteApi == source.some /\ source.val.type = "RestError::Api"

(* C19: a remote API error whose code has a local kind of the same name converts
   to exactly that kind, so that the local code is the remote code, with the
   remote message as the payload. *)
C19_RemoteClassificationPreserved ==
    (FromRemoteApi /\ source.val.error_code \in ApiErrorKinds) =>
        /\ api_error.val.kind = source.val.error_code
        /\ code(api_error.val) = AptosErrorCode(source.val.error_code)
        /\ api_error.val.details = Some(source.val.message)

\* the conversions of a deserialization or encoding failure
DeserializationSources ==
    {"FromHexError", "bcs::Error", "AccountAddressParseError", "ParseIntError",
     "RestError::Bcs", "RestError::Json"}

\* the conversions of any other unclassified failure
UnclassifiedSources ==
    {"RestError::WebClient", "RestError::UrlParse", "RestError::Timeout",
     "RestError::Unknown"}

(* C20: a deserialization or encoding failure converts to DeserializationFailed
   whose payload is present and is the text of the source error; an anyhow error
   and a WebClient, UrlParse, Timeout or Unknown failure convert to InternalError
   carrying the message text. *)
C20_ConversionsCarryText ==
    source.some =>
        /\ source.val.type \in DeserializationSources =>
              api_error.val = ApiError("DeserializationFailed", Some(source.val.text))
        /\ source.val.type \in UnclassifiedSources =>
              api_error.val = ApiError("InternalError", Some(source.val.text))
        /\ source.val.type = "anyhow::Error" =>
              api_error.val = ApiError("InternalError", Some(to_string(source.val.err)))

\* the payload of the ApiError value, as the text it is shown as
PayloadText ==
    IF api_error.val.kind = "UnsupportedSignatureCount"
    THEN usize_to_string(api_error.val.details.val)
    ELSE api_error.val.details.val

\* the same kind with no payload
Bare == ApiError(api_error.val.kind, None)

(* C21, as claimed: the message is the kind's default text when the kind carries
   no payload, and is the payload when one is present. *)
C21_MessageOverriddenByPayload ==
    Projected =>
        projection.val.message =
            (IF api_error.val.details.some THEN PayloadText ELSE message(Bare))

(* C21, amended: the message is the kind's default text whether or not a payload
   is present; a present payload leaves the message alone and is reported by
   details(). *)
C21_MessageIsDefaultText ==
    Projected =>
        /\ projection.val.message = message(Bare)
        /\ api_error.val.details.some =>
              projection.val.error.details = Some([details |-> PayloadText])

\* an InternalError with a payload kept its default text
C21_Witness ==
    /\ Projected
    /\ api_error.val = ApiError("InternalError", Some("m1"))
    /\ projection.val.message = "Internal error"

(* C22: the serialized error of every ApiError value has the value's message,
   code and retriable flag, no description, and details present exactly when the
   value carries a payload, equal to that payload as text; a kind that cannot
   carry a payload has no details. *)
C22_SerializedError ==
    Projected =>
        LET error == projection.val.error IN
        /\ error.message = projection.val.message
        /\ error.code = projection.val.code
        /\ error.retriable = projection.val.retriable
        /\ error.description = None
        /\ error.details.some <=> api_error.val.details.some
        /\ api_error.val.details.some => error.details.val = [details |-> PayloadText]
        /\ api_error.val.kind \in UnitKinds => error.details = None

\* a signature count of 12 was serialized as the text "12"
C22_Witness ==
    /\ Projected
    /\ api_error.val = ApiError("UnsupportedSignatureCount", Some(12))
    /\ projection.val.error.details = Some([details |-> "12"])
    /\ projection.val.error.code = 12

(* C23: code, status and retriable flag are decided by the kind alone: every
   ApiError value of the same kind as the projected one, whatever its payload,
   has the same code, the same status and the same flag. *)
C23_KindOnly ==
    Projected =>
        \A other \in ApiErrors :
            other.kind = api_error.val.kind =>
                /\ code(other) = projection.val.code
                /\ status_code(other) = projection.val.status_code
                /\ retriable(other) = projection.val.retriable

\* a payload-free InternalError was projected while payload-carrying ones exist
C23_Witness ==
    /\ Projected
    /\ api_error.val = ApiError("InternalError", None)
    /\ projection.val.status_code = 400
    /\ \E other \in ApiErrors : other.kind = "InternalError" /\ other.details.some

\* the request issued by the step, and the step from one awaited call to the next
Issued == calls'[Len(calls')]
Advances(from, to) == pc = from /\ pc' = to

(* C25: values are threaded through the pipeline unmodified. The calls already
   made are never rewritten and every request carries the caller's network
   identifier; preprocess and payloads carry the caller's operation list;
   metadata carries the options returned by preprocess; payloads carries the
   metadata returned by metadata and the ordered public-key list sent to
   metadata; the first parse and combine carry the unsigned blob returned by
   payloads; the second parse carries the signed blob returned by combine, and
   submit carries that same blob. *)
C25_ValuesThreaded ==
    [][ /\ Len(calls') >= Len(calls)
        /\ SubSeq(calls', 1, Len(calls)) = calls
        /\ \A i \in 1..Len(calls') : calls'[i].network_identifier = network_identifier
        /\ Advances("start", "preprocess") => Issued.operations = operations
        /\ Advances("preprocess", "metadata") =>
              Issued.options = last_response'.body.options.val
        /\ Advances("metadata", "payloads") =>
              /\ Issued.operations = operations
              /\ Issued.metadata = Some(last_response'.body.metadata)
              /\ Issued.public_keys = Some(calls[2].public_keys)
        /\ Advances("payloads", "parse_unsigned") =>
              /\ ~Issued.signed
              /\ Issued.transaction = last_response'.body.unsigned_transaction
        /\ Advances("parse_unsigned", "combine") =>
              Issued.unsigned_transaction = calls[4].transaction
        /\ Advances("combine", "parse_signed") =>
              /\ Issued.signed
              /\ Issued.transaction = last_response'.body.signed_transaction
        /\ Advances("parse_signed", "submit") =>
              Issued.signed_transaction = calls[6].transaction ]_vars

\* a submission with two public keys went through with the second signed blob
C25_Witness ==
    /\ result.kind = "ok"
    /\ Len(calls) = 7
    /\ calls[2].public_keys = <<public_key("k1"), public_key("k2")>>
    /\ calls[3].public_keys = Some(calls[2].public_keys)
    /\ calls[5].unsigned_transaction = "raw1"
    /\ calls[6].transaction = "signed2"
    /\ calls[7].signed_transaction = "signed2"

(* C26: when sign_transaction reaches combine, the signature list sent has exactly
   one signature per signing payload, in the order the payloads were returned;
   the i-th signature embeds the i-th payload, is made with the key the key map
   holds for that payload's account, and signs the locally decoded unsigned
   transaction, not the payload's message bytes; the recorded signer list is the
   payload accounts in the same order. *)
C26_SignaturesFollowPayloads ==
    [][ Advances("parse_unsigned", "combine") =>
          LET payloads == unsigned_response.val.payloads
              decoded == decode_unsigned(unsigned_response.val.unsigned_transaction)
              sent == Issued.signatures
          IN /\ decoded.some
             /\ Len(sent) = Len(payloads)
             /\ \A i \in 1..Len(payloads) :
                   LET key == keys[account_address(payloads[i].account_identifier.val).val]
                   IN /\ sent[i].signing_payload = payloads[i]
                      /\ sent[i].public_key = public_key(key)
                      /\ sent[i].signature_type = "ed25519"
                      /\ sent[i].hex_bytes.signed_by = key
                      /\ sent[i].hex_bytes.message = decoded.val
             /\ signatures' = sent
             /\ signers' = PayloadAccounts(payloads) ]_vars

\* combine was called with the signatures of two payloads of different accounts
C26_Witness ==
    /\ pc = "combine"
    /\ Len(signatures) = 2
    /\ signers = <<"0xb", "0xa">>
    /\ signatures[1].hex_bytes.signed_by = "k2"
    /\ signatures[2].hex_bytes.signed_by = "k1"
    /\ calls[5].signatures = signatures

\* the derive call was answered with a failure or without an account identifier
DeriveGaveNoAccount ==
    /\ returned = 1
    /\ \/ last_response.kind = "failed"
       \/ /\ last_response.kind = "ok"
          /\ ~last_response.body.account_identifier.some

\* derive is the first call and only the first
DeriveFirst ==
    \A i \in 1..Len(calls) : (calls[i].endpoint = "construction/derive") <=> (i = 1)

(* C27: in transfer and create_account the sender comes from a derive call made
   before any pipeline call; when derive fails or its response carries no account
   identifier the operation returns an error, and preprocess and every later
   endpoint are never called: derive stays the only call, then and afterwards. *)
C27_DeriveFailureStopsBeforePipeline ==
    [][ /\ DeriveFirst'
        /\ pc \in {"entry", "derive"} => (keys = <<>> /\ operations = <<>>)
        /\ DeriveGaveNoAccount' =>
              /\ result'.kind = "err"
              /\ pc' = "done"
              /\ Len(calls') = 1
        /\ pc = "done" => (calls' = calls /\ result' = result) ]_vars

\* derive answered without an account identifier and the transfer ended there
C27_Witness ==
    /\ entry.some /\ entry.val.op = "transfer"
    /\ DeriveGaveNoAccount
    /\ last_response.kind = "ok"
    /\ result = Err(anyhow("Failed to find account address for key"))
    /\ CallTags = <<"construction/derive">>

\* the submission has ended with a transaction identifier or a failure
Terminal == pc = "done" /\ result.kind \in {"ok", "err", "panic"}

(* C28: when every issued remote call returns, a response or a failure, every
   submission reaches a terminal outcome, a transaction identifier or a failure;
   it never makes more than the derive call and seven pipeline calls, and never
   more than one call to any endpoint apart from the two parses. *)
C28_TerminatesWithinEightCalls ==
    /\ [](/\ Len(calls) <= 8
          /\ \A tag \in Range(Pipeline) \cup {"construction/derive"} : Count(tag) <= 1)
    /\ <>Terminal

\* a transfer ended with a transaction identifier after all eight calls
C28_Witness ==
    /\ Terminal
    /\ result.kind = "ok"
    /\ Len(calls) = 8
    /\ returned = 8

\* every request of submission s is built from the arguments of s
OwnRequests(s) ==
    \A i \in 1..Len(s.calls) :
        LET request == s.calls[i] IN
        /\ request.network_identifier = s.network_identifier
        /\ request.endpoint \in {"construction/preprocess", "construction/payloads"} =>
              request.operations = s.operations
        /\ request.endpoint = "construction/preprocess" =>
              request.metadata = Some([expiry_time_secs |-> Some(s.expiry_time_secs),
                                       sequence_number |-> s.sequence_number])
        /\ request.endpoint = "construction/metadata" =>
              \A i2 \in 1..Len(request.public_keys) :
                  \E a \in DOMAIN s.keys : request.public_keys[i2] = public_key(s.keys[a])

\* submission s has made its calls in the order of the pipeline, and an Ok outcome
\* is the identifier of the response to its own submit call
OwnOutcome(s) ==
    /\ Len(s.calls) <= Len(Pipeline)
    /\ \A i \in 1..Len(s.calls) : CallTag(s.calls[i]) = Pipeline[i]
    /\ s.returned \in {Len(s.calls), Len(s.calls) - 1}
    /\ s.result.kind = "ok" =>
          /\ s.returned = 7
          /\ s.last_response.kind = "ok"
          /\ s.result = Ok(s.last_response.body.transaction_identifier)

(* C24: two submissions running on the same client do not interfere. Under every
   interleaving of their steps the client is left as it was; a step of one
   submission leaves the arguments, locals and outcome of the other untouched, and
   resuming a submission gives it back exactly the state it was suspended with;
   each submission's requests are built from its own arguments, in the order of
   the pipeline, and its outcome is the answer to its own submit call. *)
C24_SubmissionsDoNotInterfere ==
    [][ /\ client' = client
        /\ \/ /\ parked' = parked
              /\ OwnRequests(Suspended')
              /\ OwnOutcome(Suspended')
           \/ /\ parked'.val = Suspended
              /\ Suspended' = parked.val ]_vars

\* the transfer is awaiting submit while the account creation is awaiting combine
C24_Witness ==
    /\ parked.some
    /\ pc = "submit" /\ Len(operations) = 2
    /\ parked.val.pc = "combine" /\ Len(parked.val.operations) = 1
    /\ Len(calls) = 7 /\ Len(parked.val.calls) = 5
    /\ calls[1].operations # parked.val.calls[1].operations

===========================================================================
